---- MODULE Spec2Model ----
(***************************************************************************)
(* Model of the pam-u2f mapping codec (pam-u2f-mapping/src/lib.rs) and of  *)
(* the editor state machine built on it (pam-u2f-editor/src/ui.rs).        *)
(*                                                                         *)
(* A Rust string is a sequence of one-character strings.  The codec is a   *)
(* set of pure functions, modelled as operators computed the way the code  *)
(* computes them (str::split, str::lines, the field loop with its early    *)
(* returns, the Display writes), and exercised by three specifications:    *)
(*   SpecMapping  Mapping::from_str, Display, Mapping::from_str again      *)
(*   SpecFile     MappingFile::from_str on a multi-line text               *)
(*   SpecEditor   the Editor's widgets (Open, select, type, '+')           *)
(***************************************************************************)
EXTENDS Integers, Sequences, FiniteSets, TLC

VARIABLES
    line,       \* SpecMapping: the &str handed to Mapping::from_str
    pc,         \* SpecMapping: "start", "parsed", "formatted", "reparsed"
    mapping,    \* SpecMapping: Result<Mapping, Error> of the first parse
    formatted,  \* SpecMapping: mapping.to_string()
    reparsed,   \* SpecMapping: Result<Mapping, Error> of parsing `formatted`
    text,       \* SpecFile: the &str handed to MappingFile::from_str
    fpc,        \* SpecFile: "start", "decoded"
    file,       \* SpecFile: Result<MappingFile, Error>
    editor,     \* SpecEditor: the Editor struct
    last        \* SpecEditor: the widget that acted in the last frame

vars == <<line, pc, mapping, formatted, reparsed, text, fpc, file, editor, last>>

mappingVars == <<line, pc, mapping, formatted, reparsed>>
fileVars == <<text, fpc, file>>
editorVars == <<editor, last>>

----------------------------------------------------------------------------
(* Bounds of the model. *)

MaxLineLen == 6
MaxFileLen == 5
MaxOpenLen == 2
MaxUsers == 3

LineAlphabet == {"a", "b", ":", ",", "+"}
FileAlphabet == {"a", ":", ",", "+", "\n", "\r"}
NewUserTexts == {<<>>, <<"a">>}
OpenAlphabet == {"a", ":", ",", "\n"}

StringsOver(alphabet, n) == UNION {[1..k -> alphabet] : k \in 0..n}

----------------------------------------------------------------------------
(* std helpers used by the codec. *)

\* str::split(c): the pieces between the occurrences of c; never empty.
RECURSIVE Split(_, _)
Split(s, c) ==
    IF \A i \in 1..Len(s) : s[i] # c
    THEN <<s>>
    ELSE LET k == CHOOSE i \in 1..Len(s) :
                      s[i] = c /\ \A j \in 1..(i - 1) : s[j] # c
         IN <<SubSeq(s, 1, k - 1)>> \o Split(SubSeq(s, k + 1, Len(s)), c)

\* Variant of Lines: as split('\n'), the empty text after a final "\n" kept.
RECURSIVE LinesSplitEvery(_)
LinesSplitEvery(s) ==
    LET strip(l) == IF l # <<>> /\ l[Len(l)] = "\r"
                    THEN SubSeq(l, 1, Len(l) - 1) ELSE l
    IN IF \A i \in 1..Len(s) : s[i] # "\n"
       THEN <<s>>
       ELSE LET k == CHOOSE i \in 1..Len(s) :
                         s[i] = "\n" /\ \A j \in 1..(i - 1) : s[j] # "\n"
            IN <<strip(SubSeq(s, 1, k - 1))>>
                   \o LinesSplitEvery(SubSeq(s, k + 1, Len(s)))

\* str::lines(): split at "\n", a "\r" right before the "\n" dropped with it;
\* the text after the last "\n" is a line only when it is not empty (a "\r"
\* ending that unterminated last line is kept, as current std documents).
RECURSIVE Lines(_)
Lines(s) ==
    LET strip(l) == IF l # <<>> /\ l[Len(l)] = "\r"
                    THEN SubSeq(l, 1, Len(l) - 1) ELSE l
    IN IF s = <<>>
       THEN <<>>
       ELSE IF \A i \in 1..Len(s) : s[i] # "\n"
       THEN <<s>>
       ELSE LET k == CHOOSE i \in 1..Len(s) :
                         s[i] = "\n" /\ \A j \in 1..(i - 1) : s[j] # "\n"
            IN <<strip(SubSeq(s, 1, k - 1))>> \o Lines(SubSeq(s, k + 1, Len(s)))

----------------------------------------------------------------------------
(* Result<T, Error>. *)

Ok(v) == [ok |-> TRUE, err |-> "None", val |-> v]
Err(e) == [ok |-> FALSE, err |-> e, val |-> <<>>]

Errors == {"UserMissing", "HandleMissing", "KindMissing", "FlagsMissing", "BadFlags"}

\* impl Display for Error
ErrorToString(e) ==
    CASE e = "UserMissing" -> "Entry has no username"
      [] e = "HandleMissing" -> "Missing second half of key data"
      [] e = "KindMissing" -> "Entry has no key type"
      [] e = "FlagsMissing" -> "Entry has no flags"
      [] e = "BadFlags" -> "Entry has ill-formed flags"

----------------------------------------------------------------------------
(* Mapping::from_str *)

\* Variant of KeyFromField: the errors of the 2nd and 3rd subfield exchanged.
KeyFromFieldSwappedErrors(field) ==
    LET subfields == Split(field, ",")
    IN IF Len(subfields) < 2 THEN Err("KindMissing")
       ELSE IF Len(subfields) < 3 THEN Err("HandleMissing")
       ELSE IF Len(subfields) < 4 THEN Err("FlagsMissing")
       ELSE LET flags == Split(subfields[4], "+")
            IN IF Head(flags) # <<>>
               THEN Err("BadFlags")
               ELSE Ok([public |-> subfields[1],
                        handle |-> subfields[2],
                        kind |-> subfields[3],
                        flags |-> Tail(flags)])

\* Variant of KeyFromField: text before the first '+' is accepted whenever a
\* '+' follows it.
KeyFromFieldLenientFlags(field) ==
    LET subfields == Split(field, ",")
    IN IF Len(subfields) < 2 THEN Err("HandleMissing")
       ELSE IF Len(subfields) < 3 THEN Err("KindMissing")
       ELSE IF Len(subfields) < 4 THEN Err("FlagsMissing")
       ELSE LET flags == Split(subfields[4], "+")
            IN IF Len(flags) = 1 /\ Head(flags) # <<>>
               THEN Err("BadFlags")
               ELSE Ok([public |-> subfields[1],
                        handle |-> subfields[2],
                        kind |-> subfields[3],
                        flags |-> Tail(flags)])

\* Variant of KeyFromField: the segment cut as with splitn(4, ','), the flags
\* taken from everything after the 3rd ','.
KeyFromFieldRemainder(field) ==
    LET subfields == Split(field, ",")
        RECURSIVE Rejoin(_)
        Rejoin(ps) == IF Len(ps) = 1 THEN Head(ps)
                      ELSE Head(ps) \o <<",">> \o Rejoin(Tail(ps))
    IN IF Len(subfields) < 2 THEN Err("HandleMissing")
       ELSE IF Len(subfields) < 3 THEN Err("KindMissing")
       ELSE IF Len(subfields) < 4 THEN Err("FlagsMissing")
       ELSE LET flags == Split(Rejoin(SubSeq(subfields, 4, Len(subfields))), "+")
            IN IF Head(flags) # <<>>
               THEN Err("BadFlags")
               ELSE Ok([public |-> subfields[1],
                        handle |-> subfields[2],
                        kind |-> subfields[3],
                        flags |-> Tail(flags)])

\* The body of `for field in fields`: one key segment to a Key, or the error
\* the `?` / `return Err` of that iteration leaves the function with.
KeyFromField(field) ==
    LET subfields == Split(field, ",")
    IN IF Len(subfields) < 2 THEN Err("HandleMissing")
       ELSE IF Len(subfields) < 3 THEN Err("KindMissing")
       ELSE IF Len(subfields) < 4 THEN Err("FlagsMissing")
       ELSE LET flags == Split(subfields[4], "+")
            IN IF Head(flags) # <<>>
               THEN Err("BadFlags")
               ELSE Ok([public |-> subfields[1],
                        handle |-> subfields[2],
                        kind |-> subfields[3],
                        flags |-> Tail(flags)])

\* The loop over the remaining fields: keys pushed in order, the first failing
\* iteration returns its error.
RECURSIVE KeysFromFields(_, _)
KeysFromFields(fields, keys) ==
    IF fields = <<>>
    THEN Ok(keys)
    ELSE LET r == KeyFromField(Head(fields))
         IN IF r.ok
            THEN KeysFromFields(Tail(fields), Append(keys, r.val))
            ELSE r

MappingFromStr(s) ==
    LET fields == Split(s, ":")
    IN IF fields = <<>>
       THEN Err("UserMissing")
       ELSE LET r == KeysFromFields(Tail(fields), <<>>)
            IN IF r.ok
               THEN Ok([user |-> Head(fields), keys |-> r.val])
               ELSE r

----------------------------------------------------------------------------
(* impl Display for Mapping *)

RECURSIVE FlagsToString(_)
FlagsToString(flags) ==
    IF flags = <<>> THEN <<>>
    ELSE <<"+">> \o Head(flags) \o FlagsToString(Tail(flags))

KeyToString(key) ==
    <<":">> \o key.handle \o <<",">> \o key.public \o <<",">> \o key.kind
        \o <<",">> \o FlagsToString(key.flags)

RECURSIVE KeysToString(_)
KeysToString(keys) ==
    IF keys = <<>> THEN <<>>
    ELSE KeyToString(Head(keys)) \o KeysToString(Tail(keys))

MappingToString(m) == m.user \o KeysToString(m.keys)

----------------------------------------------------------------------------
(* MappingFile::from_str *)

\* Variant of CollectMappings: a failing line is skipped.
RECURSIVE CollectMappingsSkipBad(_, _)
CollectMappingsSkipBad(ls, acc) ==
    IF ls = <<>>
    THEN Ok(acc)
    ELSE LET r == MappingFromStr(Head(ls))
         IN IF r.ok
            THEN CollectMappingsSkipBad(Tail(ls), Append(acc, r.val))
            ELSE CollectMappingsSkipBad(Tail(ls), acc)

\* collect::<Result<Vec<Mapping>, Error>>(): stops at the first Err.
RECURSIVE CollectMappings(_, _)
CollectMappings(ls, acc) ==
    IF ls = <<>>
    THEN Ok(acc)
    ELSE LET r == MappingFromStr(Head(ls))
         IN IF r.ok
            THEN CollectMappings(Tail(ls), Append(acc, r.val))
            ELSE r

MappingFileFromStr(s) == CollectMappings(Lines(s), <<>>)

----------------------------------------------------------------------------
(* The editor (pam-u2f-editor/src/ui.rs). *)

\* Option<T>: None is the empty sequence, Some(x) the one-element sequence.
None == <<>>
Some(x) == <<x>>

DefaultFile == "/home/amanda/u2f_mappings"
Paths == {"", "/etc/u2f_mappings"}
IoErrorToString == "No such file or directory (os error 2)"

\* std::fs::read_to_string: the file's contents, or an I/O error
ReadResults ==
    {[ok |-> FALSE, data |-> <<>>]}
        \cup {[ok |-> TRUE, data |-> t] : t \in StringsOver(OpenAlphabet, MaxOpenLen)}

\* Editor::new() is Editor::default()
EditorNew == [mapping |-> None, file |-> "", error |-> None]

\* `if self.file.is_empty() { self.file = default }` at the top of the picker
PickerFile(f) == IF f = "" THEN DefaultFile ELSE f

\* MappingView::selected: self.mapping.mappings.get(selected)
Selected(view) ==
    IF view.selected = None THEN None
    ELSE IF view.selected[1] < Len(view.mapping) THEN Some(view.mapping[view.selected[1] + 1])
    ELSE None

\* ui.text_edit_singleline(&mut self.file)
EditFile(p) ==
    /\ editor.mapping = None
    /\ editor' = [editor EXCEPT !.file = p]
    /\ last' = "file"

\* The closure of the Open button: read_to_string(&self.file)?.parse()?
OpenResult(read) ==
    IF ~read.ok
    THEN [ok |-> FALSE, err |-> IoErrorToString, val |-> <<>>]
    ELSE LET r == MappingFileFromStr(read.data)
         IN IF r.ok THEN r
            ELSE [ok |-> FALSE, err |-> ErrorToString(r.err), val |-> <<>>]

\* The Open button: Ok replaces the view, Err records the message.
Open(read) ==
    /\ editor.mapping = None
    /\ LET result == OpenResult(read)
       IN IF result.ok
          THEN /\ editor' = [editor EXCEPT
                      !.file = PickerFile(@),
                      !.mapping = Some([mapping |-> result.val,
                                        selected |-> None,
                                        new_user |-> <<>>])]
               /\ last' = "open_ok"
          ELSE /\ editor' = [editor EXCEPT
                      !.file = PickerFile(@),
                      !.error = Some(result.err)]
               /\ last' = "open_err"

\* Variant of Select: the index one past the last mapping can be chosen.
SelectOffByOne(idx) ==
    /\ editor.mapping # None
    /\ idx \in 0..Len(editor.mapping[1].mapping)
    /\ editor' = [editor EXCEPT !.mapping[1].selected = Some(idx)]
    /\ last' = "select"

\* ui.selectable_value(&mut view.selected, Some(idx), ..) for idx in the
\* enumeration of the mappings
Select(idx) ==
    /\ editor.mapping # None
    /\ idx \in 0..(Len(editor.mapping[1].mapping) - 1)
    /\ editor' = [editor EXCEPT !.mapping[1].selected = Some(idx)]
    /\ last' = "select"

\* TextEdit::singleline(&mut view.new_user)
TypeNewUser(u) ==
    /\ editor.mapping # None
    /\ editor' = [editor EXCEPT !.mapping[1].new_user = u]
    /\ last' = "type"

\* The "+" button: push Mapping { user: new_user.drain(..).collect(), keys: [] }
AddUser ==
    /\ editor.mapping # None
    /\ Len(editor.mapping[1].mapping) < MaxUsers
    /\ editor' = [editor EXCEPT
           !.mapping[1].mapping =
               Append(@, [user |-> editor.mapping[1].new_user, keys |-> <<>>]),
           !.mapping[1].new_user = <<>>]
    /\ last' = "add"

----------------------------------------------------------------------------
(* The specifications. *)

Idle == /\ line = <<>> /\ pc = "idle" /\ mapping = Err("None")
        /\ formatted = <<>> /\ reparsed = Err("None")

FileIdle == text = <<>> /\ fpc = "idle" /\ file = Err("None")

EditorIdle == editor = EditorNew /\ last = "idle"

\* Mapping::from_str(line)
Parse ==
    /\ pc = "start"
    /\ mapping' = MappingFromStr(line)
    /\ pc' = "parsed"
    /\ UNCHANGED <<line, formatted, reparsed, fileVars, editorVars>>

\* mapping.to_string()
Format ==
    /\ pc = "parsed"
    /\ mapping.ok
    /\ formatted' = MappingToString(mapping.val)
    /\ pc' = "formatted"
    /\ UNCHANGED <<line, mapping, reparsed, fileVars, editorVars>>

\* Mapping::from_str(formatted)
Reparse ==
    /\ pc = "formatted"
    /\ reparsed' = MappingFromStr(formatted)
    /\ pc' = "reparsed"
    /\ UNCHANGED <<line, mapping, formatted, fileVars, editorVars>>

InitMapping ==
    /\ line \in StringsOver(LineAlphabet, MaxLineLen)
    /\ pc = "start"
    /\ mapping = Err("None")
    /\ formatted = <<>>
    /\ reparsed = Err("None")
    /\ FileIdle
    /\ EditorIdle

NextMapping == Parse \/ Format \/ Reparse

SpecMapping == InitMapping /\ [][NextMapping]_vars

\* MappingFile::from_str(text)
Decode ==
    /\ fpc = "start"
    /\ file' = MappingFileFromStr(text)
    /\ fpc' = "decoded"
    /\ UNCHANGED <<text, mappingVars, editorVars>>

InitFile ==
    /\ text \in StringsOver(FileAlphabet, MaxFileLen)
    /\ fpc = "start"
    /\ file = Err("None")
    /\ Idle
    /\ EditorIdle

NextFile == Decode

SpecFile == InitFile /\ [][NextFile]_vars

InitEditor ==
    /\ editor = EditorNew
    /\ last = "new"
    /\ Idle
    /\ FileIdle

NextEditor ==
    \/ \E p \in Paths : EditFile(p) /\ UNCHANGED <<mappingVars, fileVars>>
    \/ \E read \in ReadResults :
           Open(read) /\ UNCHANGED <<mappingVars, fileVars>>
    \/ \E idx \in 0..MaxUsers :
           Select(idx) /\ UNCHANGED <<mappingVars, fileVars>>
    \/ \E u \in NewUserTexts :
           TypeNewUser(u) /\ UNCHANGED <<mappingVars, fileVars>>
    \/ AddUser /\ UNCHANGED <<mappingVars, fileVars>>

SpecEditor == InitEditor /\ [][NextEditor]_vars

----------------------------------------------------------------------------
(* The file format, read off the text by position: what the claims say    *)
(* about a line is stated with these, not with the codec's own operators. *)

Count(s, c) == Cardinality({i \in 1..Len(s) : s[i] = c})

\* Position of the n-th c of s; 0 for n = 0, Len(s) + 1 past the last one.
Pos(s, c, n) ==
    IF n = 0 THEN 0
    ELSE IF n > Count(s, c) THEN Len(s) + 1
    ELSE CHOOSE i \in 1..Len(s) :
             s[i] = c /\ Cardinality({j \in 1..i : s[j] = c}) = n

\* The n-th of the pieces of s that c separates (n in 1..Count(s, c) + 1).
Piece(s, c, n) == SubSeq(s, Pos(s, c, n - 1) + 1, Pos(s, c, n) - 1)

NumKeySegments(l) == Count(l, ":")
KeySegment(l, i) == Piece(l, ":", i + 1)

\* The text after the 3rd ',' of a segment, and its 4th subfield.
Remainder(seg) == SubSeq(seg, Pos(seg, ",", 3) + 1, Len(seg))
FourthSubfield(seg) == Piece(seg, ",", 4)

\* Flags written as the format writes them: each one after a '+'.
RECURSIVE Plussed(_)
Plussed(fs) == IF fs = <<>> THEN <<>> ELSE <<"+">> \o Head(fs) \o Plussed(Tail(fs))

\* The '+'-delimited pieces of a flags group after the leading piece.
FlagPieces(group) == [j \in 1..Count(group, "+") |-> Piece(group, "+", j + 1)]

WellFormed(seg) ==
    /\ Count(seg, ",") >= 3
    /\ Piece(FourthSubfield(seg), "+", 1) = <<>>

\* Index of the first key segment that is not well formed, 0 when all are.
FirstMalformed(l) ==
    IF \A i \in 1..NumKeySegments(l) : WellFormed(KeySegment(l, i))
    THEN 0
    ELSE CHOOSE i \in 1..NumKeySegments(l) :
             /\ ~WellFormed(KeySegment(l, i))
             /\ \A j \in 1..(i - 1) : WellFormed(KeySegment(l, j))

\* The error the format assigns to a line: that of its first malformed segment.
LineError(l) ==
    LET i == FirstMalformed(l)
        n == IF i = 0 THEN 0 ELSE Count(KeySegment(l, i), ",") + 1
    IN IF i = 0 THEN "None"
       ELSE IF n = 1 THEN "HandleMissing"
       ELSE IF n = 2 THEN "KindMissing"
       ELSE IF n = 3 THEN "FlagsMissing"
       ELSE "BadFlags"

\* Canonical form: user, then segments ':a,b,kind,' followed by '+flag's, with
\* no ':' ',' '+' inside a field value.
Canonical(l) ==
    /\ Count(Piece(l, ":", 1), ",") = 0
    /\ Count(Piece(l, ":", 1), "+") = 0
    /\ \A i \in 1..NumKeySegments(l) :
           LET seg == KeySegment(l, i)
           IN /\ Count(seg, ",") = 3
              /\ \A k \in 1..3 : Count(Piece(seg, ",", k), "+") = 0
              /\ Piece(FourthSubfield(seg), "+", 1) = <<>>

\* The lines of a text: its '\n'-separated pieces, without the terminator
\* ("\n", or "\r\n") and without the empty piece after a final terminator.
NumLines(t) ==
    Count(t, "\n") + (IF t # <<>> /\ t[Len(t)] # "\n" THEN 1 ELSE 0)

LineAt(t, i) ==
    LET raw == Piece(t, "\n", i)
    IN IF i <= Count(t, "\n") /\ raw # <<>> /\ raw[Len(raw)] = "\r"
       THEN SubSeq(raw, 1, Len(raw) - 1)
       ELSE raw

Parsed == pc \in {"parsed", "formatted", "reparsed"}

----------------------------------------------------------------------------
(* Claims about Mapping::from_str and Display, under SpecMapping. *)

\* C1: a canonical line that decodes is reproduced byte for byte by
\* formatting the decoded Mapping.
RoundTripToText ==
    (pc \in {"formatted", "reparsed"} /\ Canonical(line)) => formatted = line

\* C2: user is the text before the first ':'; the i-th Key has handle, public
\* and kind equal to the 1st, 2nd and 3rd subfield of the i-th segment, and
\* flags equal to the '+'-pieces of the flags group after the leading one.
FieldExtraction ==
    (Parsed /\ mapping.ok) =>
        /\ mapping.val.user = Piece(line, ":", 1)
        /\ Len(mapping.val.keys) = NumKeySegments(line)
        /\ \A i \in 1..NumKeySegments(line) :
               LET seg == KeySegment(line, i)
                   key == mapping.val.keys[i]
               IN /\ key.handle = Piece(seg, ",", 1)
                  /\ key.public = Piece(seg, ",", 2)
                  /\ key.kind = Piece(seg, ",", 3)
                  /\ key.flags = FlagPieces(FourthSubfield(seg))

\* C3: decoding the formatted text of a decoded Mapping succeeds and gives an
\* equal Mapping.
RoundTripToModel ==
    pc = "reparsed" => (reparsed.ok /\ reparsed.val = mapping.val)

\* C4: the first malformed segment decides the error by its number of
\* subfields: one gives HandleMissing, two KindMissing, three FlagsMissing,
\* and four or more never give any of the three.
MissingFieldErrors ==
    Parsed =>
        LET i == FirstMalformed(line)
            n == IF i = 0 THEN 0 ELSE Count(KeySegment(line, i), ",") + 1
            missing == {"HandleMissing", "KindMissing", "FlagsMissing"}
        IN /\ n = 1 => mapping.err = "HandleMissing"
           /\ n = 2 => mapping.err = "KindMissing"
           /\ n = 3 => mapping.err = "FlagsMissing"
           /\ n >= 4 => mapping.err \notin missing
           /\ i = 0 => mapping.err \notin missing

MissingFieldErrorsWitness ==
    /\ Parsed
    /\ FirstMalformed(line) = 2
    /\ Count(KeySegment(line, 2), ",") = 0
    /\ mapping.err = "HandleMissing"

\* C5: decode fails with BadFlags exactly when the first segment that stops
\* the decode has its three subfields and a flags group (its 4th subfield)
\* whose text before the first '+' is not empty; a flags group that is empty
\* or begins with '+' never gives BadFlags.
FlagsSyntax ==
    Parsed =>
        (mapping.err = "BadFlags" <=>
            \E i \in 1..NumKeySegments(line) :
                /\ \A j \in 1..(i - 1) : WellFormed(KeySegment(line, j))
                /\ Count(KeySegment(line, i), ",") >= 3
                /\ Piece(FourthSubfield(KeySegment(line, i)), "+", 1) # <<>>)

FlagsSyntaxWitness ==
    /\ Parsed
    /\ mapping.err = "BadFlags"
    /\ NumKeySegments(line) = 1
    /\ Count(FourthSubfield(KeySegment(line, 1)), "+") >= 1

\* C6 as claimed: the flags group of a segment with more than three ',' is
\* all the text after the 3rd ',', none of it lost from the decoded Key.
FlagsGroupIsRemainder ==
    (Parsed /\ mapping.ok) =>
        \A i \in 1..NumKeySegments(line) :
            Count(KeySegment(line, i), ",") > 3 =>
                Plussed(mapping.val.keys[i].flags) = Remainder(KeySegment(line, i))

\* C6 amended: a segment with more than three ',' raises no error of its own
\* (a line of well-formed segments decodes), and its flags group is the 4th
\* subfield only: the text from the 4th ',' on is dropped.
FlagsGroupIsFourthSubfield ==
    Parsed =>
        /\ FirstMalformed(line) = 0 => mapping.ok
        /\ mapping.ok =>
               \A i \in 1..NumKeySegments(line) :
                   Count(KeySegment(line, i), ",") > 3 =>
                       Plussed(mapping.val.keys[i].flags)
                           = FourthSubfield(KeySegment(line, i))

FlagsGroupIsFourthSubfieldWitness ==
    /\ Parsed
    /\ mapping.ok
    /\ \E i \in 1..NumKeySegments(line) :
           /\ Count(KeySegment(line, i), ",") > 3
           /\ mapping.val.keys[i].flags # <<>>
           /\ Remainder(KeySegment(line, i)) # FourthSubfield(KeySegment(line, i))

----------------------------------------------------------------------------
(* Claims about MappingFile::from_str, under SpecFile. *)

\* C7: the decode returns a MappingFile only if every line decodes; otherwise
\* it returns the error of the earliest failing line (of that line's earliest
\* failing segment) and no mappings.
AllOrNothing ==
    fpc = "decoded" =>
        LET bad == {i \in 1..NumLines(text) : LineError(LineAt(text, i)) # "None"}
        IN IF bad = {}
           THEN file.ok /\ Len(file.val) = NumLines(text)
           ELSE LET first == CHOOSE i \in bad : \A j \in bad : i <= j
                IN /\ ~file.ok
                   /\ file.val = <<>>
                   /\ file.err = LineError(LineAt(text, first))

AllOrNothingWitness ==
    /\ fpc = "decoded"
    /\ NumLines(text) = 2
    /\ LineError(LineAt(text, 1)) = "KindMissing"
    /\ LineError(LineAt(text, 2)) = "HandleMissing"
    /\ file.err = "KindMissing"

\* C8: every Mapping of a decoded MappingFile has a non-empty user.
NonEmptyUser ==
    (fpc = "decoded" /\ file.ok) =>
        \A i \in 1..Len(file.val) : file.val[i].user # <<>>

\* C9: a decoded MappingFile has one Mapping per line, the i-th decoded from
\* the i-th line, and none for the empty text after a final line terminator.
LineCorrespondence ==
    (fpc = "decoded" /\ file.ok) =>
        /\ Len(file.val) = NumLines(text)
        /\ \A i \in 1..NumLines(text) :
               /\ file.val[i].user = Piece(LineAt(text, i), ":", 1)
               /\ Len(file.val[i].keys) = NumKeySegments(LineAt(text, i))
               /\ file.val[i] = MappingFromStr(LineAt(text, i)).val
        /\ (text # <<>> /\ text[Len(text)] = "\n") =>
               Len(file.val) = Count(text, "\n")

LineCorrespondenceWitness ==
    /\ fpc = "decoded"
    /\ file.ok
    /\ Len(file.val) = 2
    /\ text[Len(text)] = "\n"
    /\ Count(text, "\n") = 2
    /\ file.val[1].user # file.val[2].user

----------------------------------------------------------------------------
(* The claim about the editor, under SpecEditor. *)

SelectionInRange ==
    editor.mapping # None =>
        \/ editor.mapping[1].selected = None
        \/ /\ editor.mapping[1].selected[1] >= 0
           /\ editor.mapping[1].selected[1] < Len(editor.mapping[1].mapping)
           /\ Selected(editor.mapping[1]) # None

AddUserStep ==
    last' = "add" =>
        /\ editor.mapping # None
        /\ editor'.mapping # None
        /\ LET old == editor.mapping[1]
               new == editor'.mapping[1]
           IN /\ Len(new.mapping) = Len(old.mapping) + 1
              /\ SubSeq(new.mapping, 1, Len(old.mapping)) = old.mapping
              /\ new.mapping[Len(new.mapping)].keys = <<>>
              /\ new.selected = old.selected
              /\ new.new_user = <<>>

FailedOpenStep ==
    last' = "open_err" =>
        /\ editor'.mapping = editor.mapping
        /\ editor'.error # None

\* C10: while a file is loaded, `selected` is None or an index below the
\* number of mappings; a '+' click appends one Mapping with no keys, keeps the
\* others and `selected`, and empties the new-user text; a failing Open keeps
\* the loaded mapping and records the error message.
EditorSelectionValid ==
    /\ []SelectionInRange
    /\ [][AddUserStep]_vars
    /\ [][FailedOpenStep]_vars

EditorSelectionValidWitness ==
    /\ last = "add"
    /\ editor.mapping # None
    /\ editor.error # None
    /\ editor.mapping[1].selected = Some(1)
    /\ Len(editor.mapping[1].mapping) = 3

====
